---- MODULE Spec2Model ----
(***************************************************************************)
(* Model of Sondra.robustCall (src/src/sondra.js), the self-recursive      *)
(* resilient request procedure of the sondra client.                       *)
(*                                                                         *)
(* A logical call is one robustCall issued by application code.  Every     *)
(* (re-)invocation of robustCall, by the application or by robustCall      *)
(* itself, is an "invocation" with its own promise p, its own arguments    *)
(* (actionOnFail, _n, _rqid) and its own position in the promise chain     *)
(* built inside the executor of p.                                         *)
(***************************************************************************)
EXTENDS Integers, Sequences, FiniteSets, TLC

VARIABLES
    inv,                    \* inv[c]: the invocations of logical call c, in creation order
    calls,                  \* the logical calls issued so far: their merged 'robust' settings
    nextDeferredRequestId,  \* the module-level id counter
    observed,               \* observed[c]: request ids handed to temporaryErrorCallback
    sent,                   \* sent[c]: number of real requests fetch() was asked to send
    fetched,                \* fetched[c]: outcomes of the real requests, in arrival order
    probeFails,             \* probeFails[c]: number of rejected _isOnline() probes
    env,                    \* the host environment and the extent of the run
    cur,                    \* the Sondra context the application holds (the last result)
    trail,                  \* the last builder operation and the receiver it ran on
    request,                \* what the last operation handed to fetch(), if it was a call
    heap,                   \* the QuerySet and Sondra objects made so far, oldest first
    reply                   \* the promise chain of the last call(): fetch, .then(), .catch()

robustVars == <<inv, calls, nextDeferredRequestId, observed, sent, fetched, probeFails>>

builderVars == <<cur, trail, request, heap, reply>>

vars == <<inv, calls, nextDeferredRequestId, observed, sent, fetched, probeFails, env,
          cur, trail, request, heap, reply>>

\* ---------------------------------------------------------------- bounds
MaxTriesBound == 2
MaxProbeFails == 2
PairMaxTries == 1
PairProbeFails == 1
MaxObjects == 3

\* The logical calls a run can hold.  Spec issues one call: logical calls
\* share nothing but the id counter, so one call shows everything a call does
\* to its own promise.  SpecPair issues two calls that interleave.
CallIds == {1, 2}

\* navigator.connection.type as _isOnline() reads it: "absent" (the host has
\* no connectivity signal), "none" (it equals NoConnection) or "up".
\* flaky: the transport can fail (ping rejected, non-2xx, no response).
Environment(signal, flaky, population, maxTries, maxProbeFails) ==
    [signal |-> signal, flaky |-> flaky, population |-> population,
     maxTries |-> maxTries, maxProbeFails |-> maxProbeFails]
Policies == {"defer", "fail", "ignore", "bogus"}
Payloads == {"d1", "d2"}
FailureStatuses == {403, 500}

\* What the transport did with one real request: kind is "ok" (2xx),
\* "app" (non-2xx with a parsable body), "noresp" (fetch rejected, the error
\* has no status) or "errstatus" (fetch rejected, the error has a status > 0).
Response(kind, status, data) == [kind |-> kind, status |-> status, data |-> data]

\* ---------------------------------------------------------------- promises
Pending == [state |-> "pending", id |-> 0, status |-> -1, data |-> "none"]

\* resolve({deferredRequestId, data})
ResolveData(id, data) == [state |-> "resolved", id |-> id, status |-> -1, data |-> data]

\* resolve(null)
ResolveNull == [state |-> "resolved", id |-> 0, status |-> -1, data |-> "null"]

\* reject({deferredRequestId, url, status, error})
RejectWith(id, status) == [state |-> "rejected", id |-> id, status |-> status, data |-> "error"]

\* ---------------------------------------------------------------- arguments
\* const deferredRequestId = _rqid || nextDeferredRequestId++;  (0 stands for null)
AssignRequestId(rqid, next) == IF rqid # 0 THEN rqid ELSE next

\* A counter that is read but not advanced.
NextCounterStuck(rqid, next) == next

NextCounter(rqid, next) == IF rqid # 0 THEN next ELSE next + 1

\* A probe failure that consumes a retry attempt.
ProbeRetryCountsAttempt(iv) == [n |-> iv.n + 1, policy |-> iv.policy, rqid |-> iv.id]

\* this.robustCall(transientContext, temporaryErrorCallback, actionOnFail, _n, deferredRequestId)
ProbeRetryArgs(iv) == [n |-> iv.n, policy |-> iv.policy, rqid |-> iv.id]

\* this.robustCall(transientContext, temporaryErrorCallback, _n < maxTries ? "defer" : "fail", _n+1)
DeferRetryArgs(iv, maxTries) ==
    [n |-> iv.n + 1,
     policy |-> IF iv.n < maxTries THEN "defer" ELSE "fail",
     rqid |-> 0]

\* The state of an invocation right after robustCall returned its promise p:
\* the executor has called this._isOnline() and the probe is in flight.
NewInvocation(parent, via, args, next) ==
    [parent |-> parent, via |-> via, child |-> 0,
     n |-> args.n, policy |-> args.policy,
     id |-> AssignRequestId(args.rqid, next),
     pc |-> "probing", promise |-> Pending, settles |-> 0,
     outcome |-> "none", probeFailed |-> FALSE,
     ping |-> <<>>, target |-> [kind |-> "none", text |-> <<>>], delay |-> 0]

\* ---------------------------------------------------------------- text
\* A string is the sequence of the pieces it is concatenated from.
RECURSIVE JoinWith(_, _)
JoinWith(pieces, sep) ==
    IF pieces = <<>> THEN <<>>
    ELSE IF Len(pieces) = 1 THEN pieces[1]
    ELSE pieces[1] \o sep \o JoinWith(Tail(pieces), sep)

\* _.escape: & < > " ' become HTML entities, every other character is kept.
Escape(text) ==
    CASE text = "a&b" -> "a&amp;b"
      [] text = "<b>" -> "&lt;b&gt;"
      [] OTHER        -> text

\* ---------------------------------------------------------------- ordered maps
\* An OrderedMap is the sequence of its <<key, value>> entries in insertion order.
HasKey(om, k) == \E e \in DOMAIN om : om[e][1] = k

\* OrderedMap.set: an existing key keeps its position, a new key goes last.
OMSet(om, k, v) ==
    IF HasKey(om, k)
    THEN [e \in DOMAIN om |-> IF om[e][1] = k THEN <<k, v>> ELSE om[e]]
    ELSE Append(om, <<k, v>>)

\* OrderedMap.merge: set every entry of 'more', in order.
RECURSIVE OMMerge(_, _)
OMMerge(om, more) ==
    IF more = <<>> THEN om
    ELSE OMMerge(OMSet(om, more[1][1], more[1][2]), Tail(more))

\* ---------------------------------------------------------------- QuerySet
Null == "null"

\* new QuerySet(): q = OrderedMap({}).  'order' is the insertion order of the
\* keys of q; a slot whose key is not in 'order' is absent.
NewQuerySet ==
    [order |-> <<>>, keys |-> <<>>, index |-> "", flt |-> <<>>, geo |-> <<>>,
     start |-> 0, end |-> 0, limit |-> 0, agg |-> <<>>]

QHas(q, k) == \E e \in DOMAIN q.order : q.order[e] = k

\* this.q.set(k, ...): the key keeps its place or goes last.
QTouch(q, k) == IF QHas(q, k) THEN q.order ELSE Append(q.order, k)

\* start(x) / limit(x) / end(x)
QStart(q, x) == [q EXCEPT !.order = QTouch(q, "start"), !.start = x]

QLimit(q, x) == [q EXCEPT !.order = QTouch(q, "limit"), !.limit = x]

QEnd(q, x) == [q EXCEPT !.order = QTouch(q, "end"), !.end = x]

\* forKeys(keys, index = null): if(index) sets 'index' too.
ForKeys(q, keys, index) ==
    LET q1 == [q EXCEPT !.order = QTouch(q, "keys"), !.keys = keys]
    IN IF index # Null THEN [q1 EXCEPT !.order = QTouch(q1, "index"), !.index = index]
       ELSE q1

\* A filter method that puts its entry in front of the chain.
PushFilterFirst(q, entry) ==
    [q EXCEPT !.order = QTouch(q, "flt"), !.flt = <<entry>> \o (IF QHas(q, "flt") THEN @ ELSE <<>>)]

\* flt = this.q.has('flt') ? this.q.get('flt') : List(); flt.push(op); q1.set('flt', flt)
PushFilter(q, entry) ==
    [q EXCEPT !.order = QTouch(q, "flt"), !.flt = Append(IF QHas(q, "flt") THEN @ ELSE <<>>, entry)]

\* Map({op, lhs, rhs, "default": dflt})
Comparison(op, lhs, rhs, dflt) ==
    << <<"op", op>>, <<"lhs", lhs>>, <<"rhs", rhs>>, <<"default", dflt>> >>

Lt(q, lhs, rhs, dflt) == PushFilter(q, Comparison("<", lhs, rhs, dflt))

Gt(q, lhs, rhs, dflt) == PushFilter(q, Comparison(">", lhs, rhs, dflt))

Lte(q, lhs, rhs, dflt) == PushFilter(q, Comparison("<=", lhs, rhs, dflt))

Gte(q, lhs, rhs, dflt) == PushFilter(q, Comparison(">=", lhs, rhs, dflt))

Eq(q, lhs, rhs, dflt) == PushFilter(q, Comparison("==", lhs, rhs, dflt))

Match(q, lhs, rhs, dflt) == PushFilter(q, Comparison("match", lhs, rhs, dflt))

Contains(q, lhs, rhs, dflt) == PushFilter(q, Comparison("contains", lhs, rhs, dflt))

HasFields(q, fields) == PushFilter(q, << <<"op", "has_fields">>, <<"fields", fields>> >>)

\* this.q.set('geo', op); if(against) the op gets an 'against' entry.
SetGeo(q, op, against) ==
    [q EXCEPT !.order = QTouch(q, "geo"),
              !.geo = IF against # Null THEN Append(op, <<"against", against>>) ELSE op]

GetIntersecting(q, geometry, against) ==
    SetGeo(q, << <<"op", "get_intersecting">>, <<"args", <<geometry>>>> >>, against)

\* getNearest(point, against = null, max_results = 100, max_dist = 100000, unit = 'm')
GetNearest(q, point, against) ==
    SetGeo(q, << <<"op", "get_nearest">>, <<"args", <<point>>>>,
                 <<"kwargs", << <<"max_results", 100>>, <<"max_dist", 100000>>,
                                <<"unit", "m">> >> >> >>, against)

\* this.q.set('agg', Map({...}))
SetAgg(q, op) == [q EXCEPT !.order = QTouch(q, "agg"), !.agg = op]

\* count, countValue, sum, avg, min, max, pluck, without: Map({op, args}),
\* count() without args.
Aggregate(q, op, args) ==
    SetAgg(q, IF args = <<>> /\ op = "count" THEN << <<"op", op>> >>
              ELSE << <<"op", op>>, <<"args", args>> >>)

\* distinct(index = null), minInIndex(index), maxInIndex(index): Map({op,
\* kwargs: {index}}), distinct without an index Map({op: 'distinct'}).
AggregateInIndex(q, op, index) ==
    SetAgg(q, IF index = Null THEN << <<"op", op>> >>
              ELSE << <<"op", op>>, <<"kwargs", << <<"index", index>> >> >> >>)

\* ---------------------------------------------------------------- Sondra context

\* What the url field holds: a string, or (after suite) a whole context.
UrlString(text) == [kind |-> "string", text |-> text]

UrlContext(ctx) == [kind |-> "context", text |-> ctx.url.text]

REFETCH_MILLISEC == 1500
DEFAULT_MAX_TRIES == 10

\* const DefaultContext = Record({...}); new Sondra()
DefaultContext ==
    [protocol |-> "https", host |-> "localhost", port |-> "443",
     url |-> UrlString(<<>>),
     basePath |-> <<"api">>,
     headers |-> <<>>,
     requestMethod |-> "GET",
     app |-> Null, collection |-> Null, document |-> Null, method |-> Null,
     params |-> << <<"format", "json">> >>,
     body |-> <<>>,
     querySet |-> NewQuerySet,
     robust |-> [maxTries |-> DEFAULT_MAX_TRIES, refetchDelay |-> REFETCH_MILLISEC,
                 pingPath |-> "/ping"]]

\* responseFormat(fmt): every entry as escape(k)=escape(v), joined by ';'.
ResponseFormat(params) ==
    JoinWith([e \in DOMAIN params |-> <<Escape(params[e][1]), "=", Escape(params[e][2])>>],
             <<";">>)

\* if(app) ... : the names of the model are non-empty strings, so a selector
\* is truthy exactly when it is not null.
Truthy(x) == x # Null

\* A calculateUrl that joins the method like a path segment.
UrlTextMethodAsSegment(ctx) ==
    <<ctx.protocol, "://", ctx.host, ":", ctx.port, "/">>
        \o JoinWith([e \in DOMAIN ctx.basePath |-> <<ctx.basePath[e]>>], <<"/">>)
        \o (IF Truthy(ctx.app) THEN <<"/", ctx.app>> ELSE <<>>)
        \o (IF Truthy(ctx.collection) THEN <<"/", ctx.collection>> ELSE <<>>)
        \o (IF Truthy(ctx.document) THEN <<"/", ctx.document>> ELSE <<>>)
        \o (IF Truthy(ctx.method) THEN <<"/", ctx.method>> ELSE <<>>)
        \o <<";">> \o ResponseFormat(ctx.params)

\* The text calculateUrl() builds.
UrlText(ctx) ==
    <<ctx.protocol, "://", ctx.host, ":", ctx.port, "/">>
        \o JoinWith([e \in DOMAIN ctx.basePath |-> <<ctx.basePath[e]>>], <<"/">>)
        \o (IF Truthy(ctx.app) THEN <<"/", ctx.app>> ELSE <<>>)
        \o (IF Truthy(ctx.collection) THEN <<"/", ctx.collection>> ELSE <<>>)
        \o (IF Truthy(ctx.document) THEN <<"/", ctx.document>> ELSE <<>>)
        \o (IF Truthy(ctx.method) THEN <<".", ctx.method>> ELSE <<>>)
        \o <<";">> \o ResponseFormat(ctx.params)

\* calculateUrl(): return this.set('url', url)
CalculateUrl(ctx) == [ctx EXCEPT !.url = UrlString(UrlText(ctx))]

\* this.merge(changes): the fields of 'changes' replace those of the context.
Merge(ctx, changes) ==
    [f \in DOMAIN ctx |-> IF f \in DOMAIN changes THEN changes[f] ELSE ctx[f]]

\* suite(protocol, host, port, basePath): basePath is not merged, and the url
\* field is set to the context calculateUrl() returns.
Suite(ctx, protocol, host, port) ==
    LET s == Merge(ctx, [protocol |-> protocol, host |-> host, port |-> port])
    IN [s EXCEPT !.url = UrlContext(CalculateUrl(s))]

\* An app() that keeps the finer-grained selectors.
AppKeepsSelection(ctx, name) == CalculateUrl(Merge(ctx, [app |-> name, body |-> <<>>]))

App(ctx, name) ==
    CalculateUrl(Merge(ctx, [app |-> name, collection |-> Null, document |-> Null,
                             method |-> Null, body |-> <<>>]))

\* A collection() that goes back to the default verb.
CollectionResetsVerb(ctx, name) ==
    CalculateUrl(Merge(ctx, [collection |-> name, document |-> Null, method |-> Null,
                             body |-> <<>>, requestMethod |-> "GET"]))

Collection(ctx, name) ==
    CalculateUrl(Merge(ctx, [collection |-> name, document |-> Null,
                             method |-> Null, body |-> <<>>]))

Document(ctx, pk) ==
    CalculateUrl(Merge(ctx, [document |-> pk, method |-> Null, body |-> <<>>]))

Method(ctx, name) ==
    CalculateUrl(Merge(ctx, [requestMethod |-> "POST", method |-> name, body |-> <<>>]))

\* auth(token): setIn(['headers', 'Authorization'], `Bearer ${token}`)
Auth(ctx, token) == [ctx EXCEPT !.headers = OMSet(@, "Authorization", <<"Bearer ", token>>)]

\* format(name, options): setIn(['params','format'], name).mergeIn(['params'], options)
Format(ctx, name, options) ==
    CalculateUrl([ctx EXCEPT !.params = OMMerge(OMSet(@, "format", name), options)])

RequestMethod(ctx, m) == [ctx EXCEPT !.requestMethod = m]

\* query(querySet) with a QuerySet: this.set('querySet', querySet)
Query(ctx, querySet) == [ctx EXCEPT !.querySet = querySet]

\* Record.set('body', ...), inherited by Sondra from the Immutable Record.
WithBody(ctx, body) == [ctx EXCEPT !.body = body]

\* ---------------------------------------------------------------- requests
\* JSON.stringify(v): an opaque text that stands for v.
Json(v) == [json |-> v]

QSlot(q, k) ==
    CASE k = "keys"  -> q.keys
      [] k = "index" -> q.index
      [] k = "flt"   -> q.flt
      [] k = "geo"   -> q.geo
      [] k = "start" -> q.start
      [] k = "end"   -> q.end
      [] k = "limit" -> q.limit
      [] k = "agg"   -> q.agg

JsonProps == <<"flt", "agg", "geo", "keys">>

BareProps == <<"index", "start", "limit", "end">>

\* value(cook): cooked, the composite slots as JSON text and then the scalar
\* slots as they are; plain, this.q.toJS().
QValue(q, cook) ==
    IF cook
    THEN LET present(k) == QHas(q, k)
             json == SelectSeq(JsonProps, present)
             bare == SelectSeq(BareProps, present)
         IN [e \in DOMAIN json |-> <<json[e], Json(QSlot(q, json[e]))>>]
                \o [e \in DOMAIN bare |-> <<bare[e], QSlot(q, bare[e])>>]
    ELSE [e \in DOMAIN q.order |-> <<q.order[e], QSlot(q, q.order[e])>>]

\* this.q.set(k, v) for a key k given by name.
QSet(q, k, v) ==
    LET q1 == [q EXCEPT !.order = QTouch(q, k)]
    IN CASE k = "keys"  -> [q1 EXCEPT !.keys = v]
         [] k = "index" -> [q1 EXCEPT !.index = v]
         [] k = "flt"   -> [q1 EXCEPT !.flt = v]
         [] k = "geo"   -> [q1 EXCEPT !.geo = v]
         [] k = "start" -> [q1 EXCEPT !.start = v]
         [] k = "end"   -> [q1 EXCEPT !.end = v]
         [] k = "limit" -> [q1 EXCEPT !.limit = v]
         [] k = "agg"   -> [q1 EXCEPT !.agg = v]

\* Immutable.fromJS(plain): a map that gets the entries of the plain object
\* one by one.
RECURSIVE FromJS(_, _)
FromJS(q, plain) ==
    IF plain = <<>> THEN q
    ELSE FromJS(QSet(q, plain[1][1], plain[1][2]), Tail(plain))

\* A constructor that leaves its argument aside.
NewQuerySetEmpty(plain) == NewQuerySet

\* new QuerySet(q) with a plain object: this.q = Immutable.fromJS(q)
NewQuerySetFrom(plain) == FromJS(NewQuerySet, plain)

NoRequest == [sent |-> FALSE]

\* fetch(target, {method, body, ...}): 'query' is what follows the "?" of the
\* target, when it has one.
Request(url, hasQuery, query, verb, hasBody, payload) ==
    [sent |-> TRUE, url |-> url, hasQuery |-> hasQuery, query |-> query,
     verb |-> verb, hasBody |-> hasBody, payload |-> payload]

\* call(transientContext): the request of lines 396-414.
CallRequest(ctx, transientContext) ==
    LET m == Merge(ctx, transientContext)
    IN IF m.requestMethod # "GET"
       THEN LET queryBody == OMMerge(m.body, QValue(m.querySet, TRUE))
            IN Request(m.url, FALSE, <<>>, m.requestMethod, queryBody # <<>>, queryBody)
       ELSE LET queryBody == OMMerge(m.body, QValue(m.querySet, FALSE))
            IN Request(m.url, TRUE, queryBody, m.requestMethod, FALSE, <<>>)

\* robustCall(transientContext): the request of lines 472-489 and 500.
\* _.size(body) of an Immutable map counts its own properties and is never
\* 0; the GET query string is built into requestUrl, but fetch gets url.
RobustCallRequest(ctx, transientContext) ==
    LET m == Merge(ctx, transientContext)
    IN IF m.requestMethod # "GET"
       THEN Request(m.url, FALSE, <<>>, m.requestMethod, TRUE, m.body)
       ELSE Request(m.url, FALSE, <<>>, m.requestMethod, FALSE, <<>>)

\* ---------------------------------------------------------------- call() promises
\* A promise of the chain fetch(...).then(...).catch(...): pending, fulfilled
\* with a value or rejected with a reason.
Unsettled == [state |-> "pending", value |-> <<>>]

Fulfilled(value) == [state |-> "resolved", value |-> <<value>>]

\* Rejected with an error object.
RejectedWithError(error) == [state |-> "rejected", value |-> <<error>>]

\* Promise.reject([status, err])
RejectedWithPair(status, err) == [state |-> "rejected", value |-> <<status, err>>]

\* What the transport does with the request of call(): a 2xx or a non-2xx
\* response whose body is JSON or is not, or no response at all.
PlainResponses ==
    {Response("ok", 200, d) : d \in Payloads \cup {"not json"}}
        \cup {Response("app", st, d) : st \in FailureStatuses, d \in {"error", "not json"}}
        \cup {Response("noresp", 0, "none")}

\* rsp.json()
ParsedBody(rsp) ==
    IF rsp.data = "not json" THEN RejectedWithError("SyntaxError") ELSE Fulfilled(rsp.data)

\* fetch(requestUrl, requestOptions)
FetchPromise(rsp) ==
    IF rsp.kind = "noresp" THEN RejectedWithError("TypeError") ELSE Fulfilled(rsp)

\* .then((rsp) => rsp.ok ? rsp.json() : rsp.json().then((err) =>
\* Promise.reject([rsp.status, err]))): a rejected fetch passes through.
ThenHandler(fetched_) ==
    IF fetched_.state = "rejected" THEN fetched_
    ELSE LET rsp == fetched_.value[1]
             body == ParsedBody(rsp)
         IN IF rsp.kind = "ok" \/ body.state = "rejected" THEN body
            ELSE RejectedWithPair(rsp.status, body.value[1])

\* .catch((err) => Promise.reject([0, err])): every rejection that reaches
\* it, that of the .then() handler included.
CatchHandler(link) ==
    IF link.state = "rejected" THEN RejectedWithPair(0, link.value) ELSE link

\* pc: "idle", "fetching" (the request is out), "then" (fetch settled),
\* "catch" (the .then() promise settled), "done" (the promise call() returned
\* settled).  link: the promise the next handler reacts to.
Reply(pc, response, link, promise) ==
    [pc |-> pc, response |-> response, link |-> link, promise |-> promise]

NoReply == Reply("idle", Response("none", 0, "none"), Unsettled, Unsettled)

Fetching == Reply("fetching", Response("none", 0, "none"), Unsettled, Unsettled)

\* ---------------------------------------------------------------- builder inputs
SuiteTargets == {<<"http", "localhost", "5000">>}
AppNames == {"auth"}
CollectionNames == {"users"}
DocumentKeys == {"jefferson"}
MethodNames == {"login"}
Tokens == {"t1"}
Verbs == {"GET", "DELETE"}
FormatCalls ==
    { <<"schema", <<>>>>,
      <<"json", << <<"indent", "2">>, <<"callback", "a&b">> >> >> }
Bodies == { << <<"username", "jefferson">> >> }
QuerySets == { QLimit(QStart(NewQuerySet, 0), 5) }
TransientContexts ==
    { << >>, [body |-> << <<"username", "jefferson">> >>], [app |-> "core"],
      [requestMethod |-> "DELETE"] }

\* ---------------------------------------------------------------- builder steps
\* configured: suite() is among the operations that led to the context held;
\* transient: the transientContext of the last call.
Trail(op, before, configured, transient) ==
    [op |-> op, before |-> before, configured |-> configured, transient |-> transient]

InitBuilder ==
    /\ cur = DefaultContext
    /\ trail = Trail("new", DefaultContext, FALSE, << >>)
    /\ request = NoRequest
    /\ heap = <<>>
    /\ reply = NoReply

\* The application replaces the context it holds by the result of an operation.
Built(op, result) ==
    /\ cur' = result
    /\ trail' = Trail(op, cur, trail.configured \/ op = "suite", << >>)
    /\ request' = NoRequest
    /\ reply' = NoReply
    /\ UNCHANGED <<robustVars, env, heap>>

DoSuite == \E t \in SuiteTargets : Built("suite", Suite(cur, t[1], t[2], t[3]))

DoApp == \E name \in AppNames : Built("app", App(cur, name))

DoCollection == \E name \in CollectionNames : Built("collection", Collection(cur, name))

DoDocument == \E pk \in DocumentKeys : Built("document", Document(cur, pk))

DoMethod == \E name \in MethodNames : Built("method", Method(cur, name))

DoAuth == \E token \in Tokens : Built("auth", Auth(cur, token))

DoFormat == \E f \in FormatCalls : Built("format", Format(cur, f[1], f[2]))

DoRequestMethod == \E m \in Verbs : Built("requestMethod", RequestMethod(cur, m))

DoQuery == \E q \in QuerySets : Built("query", Query(cur, q))

DoWithBody == \E b \in Bodies : Built("set body", WithBody(cur, b))

\* call(transientContext) up to its fetch: the context is left as it is.
DoCall ==
    \E t \in TransientContexts :
        /\ request' = CallRequest(cur, t)
        /\ reply' = Fetching
        /\ trail' = Trail("call", cur, trail.configured, t)
        /\ UNCHANGED <<cur, robustVars, env, heap>>

\* robustCall(transientContext) up to the fetch of its first invocation.
DoRobustCall ==
    \E t \in TransientContexts :
        /\ request' = RobustCallRequest(cur, t)
        /\ reply' = NoReply
        /\ trail' = Trail("robustCall", cur, trail.configured, t)
        /\ UNCHANGED <<cur, robustVars, env, heap>>

\* ---------------------------------------------------------------- call() steps
\* Neither the context nor the request changes while the reply comes in.
Replied(next) ==
    /\ reply' = next
    /\ UNCHANGED <<robustVars, env, cur, trail, request, heap>>

\* The transport answers the request of call(), or fails to.
PlainFetchSettled ==
    /\ reply.pc = "fetching"
    /\ \E rsp \in PlainResponses : Replied(Reply("then", rsp, FetchPromise(rsp), Unsettled))

PlainThen ==
    /\ reply.pc = "then"
    /\ Replied(Reply("catch", reply.response, ThenHandler(reply.link), Unsettled))

PlainCatch ==
    /\ reply.pc = "catch"
    /\ Replied(Reply("done", reply.response, reply.link, CatchHandler(reply.link)))

\* ---------------------------------------------------------------- wrappers
\* this.document(key).call(transientContext): the receiver stays what it is.
Wrapped(op, key, transientContext) ==
    /\ request' = CallRequest(Document(cur, key), transientContext)
    /\ reply' = Fetching
    /\ trail' = Trail(op, cur, trail.configured, transientContext)
    /\ UNCHANGED <<cur, robustVars, env, heap>>

\* callWith(body): this.call({body: body})
DoCallWith ==
    \E b \in Bodies :
        /\ request' = CallRequest(cur, [body |-> b])
        /\ reply' = Fetching
        /\ trail' = Trail("callWith", cur, trail.configured, [body |-> b])
        /\ UNCHANGED <<cur, robustVars, env, heap>>

\* fetchDocument(key, transientContext = {})
DoFetchDocument ==
    \E key \in DocumentKeys : \E t \in { << >>, [body |-> CHOOSE b \in Bodies : TRUE] } :
        Wrapped("fetchDocument", key, t)

DoDeleteDocument ==
    \E key \in DocumentKeys : Wrapped("deleteDocument", key, [requestMethod |-> "DELETE"])

DoPatchDocument ==
    \E key \in DocumentKeys : \E values \in Bodies :
        Wrapped("patchDocument", key, [requestMethod |-> "PATCH", body |-> values])

DoReplaceDocument ==
    \E key \in DocumentKeys : \E replacement \in Bodies :
        Wrapped("replaceDocument", key, [requestMethod |-> "PUT", body |-> replacement])

DoCreateDocument ==
    \E key \in DocumentKeys : \E doc \in Bodies :
        Wrapped("createDocument", key, [requestMethod |-> "POST", body |-> doc])

\* The application selects, sets verbs, executes and gets replies.
NextCall ==
    \/ DoSuite
    \/ DoApp
    \/ DoCollection
    \/ DoMethod
    \/ DoRequestMethod
    \/ DoCall
    \/ DoCallWith
    \/ DoFetchDocument
    \/ DoDeleteDocument
    \/ DoPatchDocument
    \/ DoReplaceDocument
    \/ DoCreateDocument
    \/ PlainFetchSettled
    \/ PlainThen
    \/ PlainCatch

NextBuilder ==
    \/ DoSuite
    \/ DoApp
    \/ DoCollection
    \/ DoDocument
    \/ DoMethod
    \/ DoAuth
    \/ DoFormat
    \/ DoRequestMethod
    \/ DoQuery
    \/ DoWithBody
    \/ DoCall
    \/ DoRobustCall

\* ---------------------------------------------------------------- objects
\* Every QuerySet and Sondra object the application holds, oldest first.  An
\* object is kept with the object it was made from (parent, 0 for one made
\* by new) and the calls that made it (made).
Cell(kind, obj, parent, made) == [kind |-> kind, obj |-> obj, parent |-> parent, made |-> made]

\* A call is <<method name, arguments>>.
Call(name, args) == <<name, args>>

\* An operation that changes its receiver and returns it.
DeriveInPlace(recv, result) == [recv |-> result, result |-> result]

\* Immutable's set / merge / push return a new value and leave the receiver
\* as it is; the operation returns new QuerySet(q1) or the new record.
Derive(recv, result) == [recv |-> recv, result |-> result]

FilterNames == {"lt", "gt", "lte", "gte", "eq", "match", "contains"}

FilterCalls ==
    {Call(name, <<"age", "21", FALSE>>) : name \in FilterNames}
        \cup {Call("hasFields", << <<"name", "email">> >>)}

KeyCalls == {Call("forKeys", << <<"k1", "k2">>, index >>) : index \in {Null, "by_name"}}

GeoCalls ==
    {Call(name, <<"POINT(0 0)", against>>) :
        name \in {"getIntersecting", "getNearest"}, against \in {Null, "geom"}}

WindowCalls == {Call("start", <<0>>), Call("end", <<9>>), Call("limit", <<5>>)}

AggregationCalls ==
    {Call("count", <<>>), Call("countValue", <<"x">>), Call("pluck", <<"name", "email">>),
     Call("without", <<"name">>), Call("distinct", <<Null>>), Call("distinct", <<"by_name">>),
     Call("minInIndex", <<"by_name">>), Call("maxInIndex", <<"by_name">>)}
        \cup {Call(name, <<"age">>) : name \in {"sum", "avg", "min", "max"}}

\* The QuerySet method named by a call, applied to q.
ApplyQuery(q, c) ==
    CASE c[1] = "forKeys"         -> ForKeys(q, c[2][1], c[2][2])
      [] c[1] = "lt"              -> Lt(q, c[2][1], c[2][2], c[2][3])
      [] c[1] = "gt"              -> Gt(q, c[2][1], c[2][2], c[2][3])
      [] c[1] = "lte"             -> Lte(q, c[2][1], c[2][2], c[2][3])
      [] c[1] = "gte"             -> Gte(q, c[2][1], c[2][2], c[2][3])
      [] c[1] = "eq"              -> Eq(q, c[2][1], c[2][2], c[2][3])
      [] c[1] = "match"           -> Match(q, c[2][1], c[2][2], c[2][3])
      [] c[1] = "contains"        -> Contains(q, c[2][1], c[2][2], c[2][3])
      [] c[1] = "hasFields"       -> HasFields(q, c[2][1])
      [] c[1] = "getIntersecting" -> GetIntersecting(q, c[2][1], c[2][2])
      [] c[1] = "getNearest"      -> GetNearest(q, c[2][1], c[2][2])
      [] c[1] = "start"           -> QStart(q, c[2][1])
      [] c[1] = "end"             -> QEnd(q, c[2][1])
      [] c[1] = "limit"           -> QLimit(q, c[2][1])
      [] c[1] = "countValue"      -> Aggregate(q, "count", c[2])
      [] c[1] \in {"count", "sum", "avg", "min", "max", "pluck", "without"}
                                    -> Aggregate(q, c[1], c[2])
      [] c[1] = "distinct"        -> AggregateInIndex(q, "distinct", c[2][1])
      [] c[1] = "minInIndex"      -> AggregateInIndex(q, "min", c[2][1])
      [] c[1] = "maxInIndex"      -> AggregateInIndex(q, "max", c[2][1])

SondraCalls ==
    {Call("suite", t) : t \in SuiteTargets}
        \cup {Call("app", <<n>>) : n \in AppNames}
        \cup {Call("collection", <<n>>) : n \in CollectionNames}
        \cup {Call("document", <<n>>) : n \in DocumentKeys}
        \cup {Call("method", <<n>>) : n \in MethodNames}
        \cup {Call("auth", <<n>>) : n \in Tokens}
        \cup {Call("format", f) : f \in FormatCalls}
        \cup {Call("requestMethod", <<m>>) : m \in Verbs}
        \cup {Call("query", <<q>>) : q \in QuerySets}
        \cup {Call("set body", <<b>>) : b \in Bodies}

\* The Sondra method named by a call, applied to ctx.
ApplySondra(ctx, c) ==
    CASE c[1] = "suite"         -> Suite(ctx, c[2][1], c[2][2], c[2][3])
      [] c[1] = "app"           -> App(ctx, c[2][1])
      [] c[1] = "collection"    -> Collection(ctx, c[2][1])
      [] c[1] = "document"      -> Document(ctx, c[2][1])
      [] c[1] = "method"        -> Method(ctx, c[2][1])
      [] c[1] = "auth"          -> Auth(ctx, c[2][1])
      [] c[1] = "format"        -> Format(ctx, c[2][1], c[2][2])
      [] c[1] = "requestMethod" -> RequestMethod(ctx, c[2][1])
      [] c[1] = "query"         -> Query(ctx, c[2][1])
      [] c[1] = "set body"      -> WithBody(ctx, c[2][1])

\* new QuerySet() or new Sondra()
InitHeap ==
    /\ heap \in { <<Cell("QuerySet", NewQuerySet, 0, <<>>)>>,
                  <<Cell("Sondra", DefaultContext, 0, <<>>)>> }
    /\ cur = DefaultContext
    /\ trail = Trail("new", DefaultContext, FALSE, << >>)
    /\ request = NoRequest
    /\ reply = NoReply

\* heap[r] gets the call c: what the call leaves in the receiver stays at r,
\* what it returns is one more object.
Returned(r, c, out) ==
    /\ Len(heap) < MaxObjects
    /\ heap' = Append([heap EXCEPT ![r].obj = out.recv],
                      Cell(heap[r].kind, out.result, r, Append(heap[r].made, c)))
    /\ request' = NoRequest
    /\ UNCHANGED <<robustVars, env, cur, trail, reply>>

QueryStep(callSet, r) ==
    /\ heap[r].kind = "QuerySet"
    /\ \E c \in callSet : Returned(r, c, Derive(heap[r].obj, ApplyQuery(heap[r].obj, c)))

HeapForKeys == \E r \in DOMAIN heap : QueryStep(KeyCalls, r)

HeapFilter == \E r \in DOMAIN heap : QueryStep(FilterCalls, r)

HeapGeo == \E r \in DOMAIN heap : QueryStep(GeoCalls, r)

HeapWindow == \E r \in DOMAIN heap : QueryStep(WindowCalls, r)

HeapAggregation == \E r \in DOMAIN heap : QueryStep(AggregationCalls, r)

\* new QuerySet(q.value(false)) of a QuerySet q at hand.
HeapRebuild ==
    \E r \in DOMAIN heap :
        /\ heap[r].kind = "QuerySet"
        /\ Returned(r, Call("new QuerySet", <<>>),
                    Derive(heap[r].obj, NewQuerySetFrom(QValue(heap[r].obj, FALSE))))

HeapSondra ==
    \E r \in DOMAIN heap :
        /\ heap[r].kind = "Sondra"
        /\ \E c \in SondraCalls :
              Returned(r, c, Derive(heap[r].obj, ApplySondra(heap[r].obj, c)))

\* call / robustCall on heap[r]: this.merge(transientContext) is a value of
\* the call alone; the call returns a promise, no object.
Executed(r, t, sentRequest) ==
    /\ heap[r].kind = "Sondra"
    /\ heap' = [heap EXCEPT ![r].obj = Derive(@, Merge(@, t)).recv]
    /\ request' = sentRequest
    /\ UNCHANGED <<robustVars, env, cur, trail, reply>>

HeapCall ==
    \E r \in DOMAIN heap : \E t \in TransientContexts :
        Executed(r, t, CallRequest(heap[r].obj, t))

HeapRobustCall ==
    \E r \in DOMAIN heap : \E t \in TransientContexts :
        Executed(r, t, RobustCallRequest(heap[r].obj, t))

NextHeap ==
    \/ HeapForKeys
    \/ HeapFilter
    \/ HeapGeo
    \/ HeapWindow
    \/ HeapAggregation
    \/ HeapRebuild
    \/ HeapSondra
    \/ HeapCall
    \/ HeapRobustCall

\* ---------------------------------------------------------------- robustCall steps
InitRobust ==
    /\ inv = [c \in CallIds |-> <<>>]
    /\ calls = <<>>
    /\ nextDeferredRequestId = 1
    /\ observed = [c \in CallIds |-> <<>>]
    /\ sent = [c \in CallIds |-> 0]
    /\ fetched = [c \in CallIds |-> <<>>]
    /\ probeFails = [c \in CallIds |-> 0]

Init ==
    /\ InitRobust
    /\ InitBuilder
    /\ env = Environment("absent", TRUE, 1, MaxTriesBound, MaxProbeFails)

\* A context of the suite whose robust settings allow maxTries tries.
RobustReceiver(maxTries) ==
    LET t == CHOOSE x \in SuiteTargets : TRUE
        ctx == App(Suite(DefaultContext, t[1], t[2], t[3]), CHOOSE a \in AppNames : TRUE)
    IN [ctx EXCEPT !.robust.maxTries = maxTries]

\* A logical call: the receiver of robustCall, its transientContext, and the
\* maxTries of the two merged.
LogicalCall(receiver, transientContext) ==
    [maxTries |-> Merge(receiver, transientContext).robust.maxTries,
     receiver |-> receiver, transient |-> transientContext]

\* const {url, ..., robust} = this.merge(transientContext).toObject(), the
\* same in every invocation of the logical call.
Merged(c) == Merge(calls[c].receiver, calls[c].transient)

\* The ping of _isOnline(), for the context it runs on.
PingTarget(ctx) == <<ctx.protocol, "://", ctx.host, ":", ctx.port, ctx.robust.pingPath>>

\* this._isOnline(): protocol, host, port and pingPath of the receiver.
IsOnlineTarget(c) == PingTarget(calls[c].receiver)

\* this.getIn(['robust', 'refetchDelay']) in the .catch() of the probe.
ProbeRefetchDelay(c) == calls[c].receiver.robust.refetchDelay

\* const { maxTries, refetchDelay } = robust.toJS() in the 'defer' case.
DeferRefetchDelay(c) == Merged(c).robust.refetchDelay

\* fetch(url, requestOptions): the url of the merged context.
FetchTarget(c) == Merged(c).url

\* The application calls robustCall(transientContext, cb, actionOnFail):
\* _n = 0 and _rqid = null.
Invoke(policy, maxTries) ==
    /\ Len(calls) < env.population
    /\ maxTries \in 1..env.maxTries
    /\ LET c == Len(calls) + 1
           args == [n |-> 0, policy |-> policy, rqid |-> 0]
       IN /\ calls' = Append(calls, LogicalCall(RobustReceiver(maxTries), << >>))
          /\ inv' = [inv EXCEPT ![c] = <<NewInvocation(0, "root", args, nextDeferredRequestId)>>]
          /\ nextDeferredRequestId' = NextCounter(args.rqid, nextDeferredRequestId)
    /\ UNCHANGED <<observed, sent, fetched, probeFails, env, builderVars>>

\* transientContext values that change what the probe, the request and the
\* delays depend on.
RobustOverrides ==
    { [host |-> "backup"],
      [robust |-> [maxTries |-> 1, refetchDelay |-> 50, pingPath |-> "/health"]] }

\* robustCall(transientContext, cb, actionOnFail) with such a transientContext.
InvokeWith(policy, maxTries, transientContext) ==
    /\ Len(calls) < env.population
    /\ maxTries \in 1..env.maxTries
    /\ LET c == Len(calls) + 1
           args == [n |-> 0, policy |-> policy, rqid |-> 0]
       IN /\ calls' = Append(calls, LogicalCall(RobustReceiver(maxTries), transientContext))
          /\ inv' = [inv EXCEPT ![c] = <<NewInvocation(0, "root", args, nextDeferredRequestId)>>]
          /\ nextDeferredRequestId' = NextCounter(args.rqid, nextDeferredRequestId)
    /\ UNCHANGED <<observed, sent, fetched, probeFails, env, builderVars>>

\* A promise settles once; later resolve/reject calls have no effect.
Settle(iv, value) ==
    IF iv.promise.state = "pending"
    THEN [iv EXCEPT !.promise = value, !.settles = @ + 1]
    ELSE iv

\* The observer that is never told.
NotifySkipped(log, iv) == log

\* temporaryErrorCallback(deferredRequestId, url, error), evaluated as the
\* argument of Promise.delay(refetchDelay, ...): before the delay starts.
Notify(log, iv) == Append(log, iv.id)

\* _isOnline(): with the signal absent or different from NoConnection the
\* probe is fetch(ping, {method: 'HEAD'}); otherwise it rejects "not online"
\* without a request.
ProbeCanSucceed == env.signal # "none"

ProbeCanFail == env.signal = "none" \/ env.flaky

\* this._isOnline() fulfilled: the .then() handler runs fetch(url, requestOptions).
ProbeOk(c, i) ==
    /\ i \in DOMAIN inv[c]
    /\ inv[c][i].pc = "probing"
    /\ ProbeCanSucceed
    /\ inv' = [inv EXCEPT ![c][i].pc = "sending", ![c][i].ping = IsOnlineTarget(c),
                          ![c][i].target = FetchTarget(c)]
    /\ sent' = [sent EXCEPT ![c] = @ + 1]
    /\ UNCHANGED <<calls, nextDeferredRequestId, observed, fetched, probeFails, env, builderVars>>

\* this._isOnline() rejected: the .catch() handler calls
\* temporaryErrorCallback(deferredRequestId, url, error) and starts Promise.delay.
ProbeFail(c, i) ==
    /\ i \in DOMAIN inv[c]
    /\ inv[c][i].pc = "probing"
    /\ ProbeCanFail
    /\ probeFails[c] < env.maxProbeFails
    /\ observed' = [observed EXCEPT ![c] = Notify(@, inv[c][i])]
    /\ inv' = [inv EXCEPT ![c][i].pc = "probeDelay", ![c][i].probeFailed = TRUE,
                          ![c][i].ping = IsOnlineTarget(c),
                          ![c][i].delay = ProbeRefetchDelay(c)]
    /\ probeFails' = [probeFails EXCEPT ![c] = @ + 1]
    /\ UNCHANGED <<calls, nextDeferredRequestId, sent, fetched, env, builderVars>>

\* A probe failure that ends the chain instead of re-invoking robustCall.
ProbeDelayGivesUp(c, i) ==
    /\ i \in DOMAIN inv[c]
    /\ inv[c][i].pc = "probeDelay"
    /\ inv' = [inv EXCEPT ![c][i].pc = "end"]
    /\ UNCHANGED <<calls, nextDeferredRequestId, observed, sent, fetched, probeFails, env, builderVars>>

\* The delay after a probe failure elapsed: robustCall re-invokes itself and
\* the .catch() handler returns the promise of that inner invocation.
ProbeDelayElapsed(c, i) ==
    /\ i \in DOMAIN inv[c]
    /\ inv[c][i].pc = "probeDelay"
    /\ LET args == ProbeRetryArgs(inv[c][i])
           j == Len(inv[c]) + 1
           waiting == [inv[c] EXCEPT ![i].pc = "awaitInner", ![i].child = j]
       IN /\ inv' = [inv EXCEPT ![c] =
                        Append(waiting, NewInvocation(i, "probe", args, nextDeferredRequestId))]
          /\ nextDeferredRequestId' = NextCounter(args.rqid, nextDeferredRequestId)
    /\ UNCHANGED <<calls, observed, sent, fetched, probeFails, env, builderVars>>

\* The inner invocation started by the .catch() handler settled.  Fulfilled:
\* the promise of .catch() is fulfilled and the .then() handler runs the fetch
\* of this invocation.  Rejected: .then() is skipped, the chain ends rejected
\* and p is left alone (the executor's return value is dropped).
InnerSettled(c, i) ==
    /\ i \in DOMAIN inv[c]
    /\ inv[c][i].pc = "awaitInner"
    /\ inv[c][inv[c][i].child].promise.state # "pending"
    /\ IF inv[c][inv[c][i].child].promise.state = "resolved"
       THEN /\ inv' = [inv EXCEPT ![c][i].pc = "sending", ![c][i].target = FetchTarget(c)]
            /\ sent' = [sent EXCEPT ![c] = @ + 1]
       ELSE /\ inv' = [inv EXCEPT ![c][i].pc = "end"]
            /\ UNCHANGED sent
    /\ UNCHANGED <<calls, nextDeferredRequestId, observed, fetched, probeFails, env, builderVars>>

\* rsp.ok: rsp.json().then((data) => resolve({deferredRequestId, data}))
FetchOk(c, i, data) ==
    /\ i \in DOMAIN inv[c]
    /\ inv[c][i].pc = "sending"
    /\ LET iv == inv[c][i]
           done == [iv EXCEPT !.pc = "end", !.outcome = "ok"]
       IN inv' = [inv EXCEPT ![c][i] = Settle(done, ResolveData(iv.id, data))]
    /\ fetched' = [fetched EXCEPT ![c] = Append(@, Response("ok", 200, data))]
    /\ UNCHANGED <<calls, nextDeferredRequestId, observed, sent, probeFails, env, builderVars>>

\* An application error handled like a transient failure under 'defer'.
ApplicationErrorDeferred(iv, status) == [iv EXCEPT !.pc = "deferDelay", !.outcome = "app"]

\* const status = rsp.status;
\* rsp.json().then((data) => reject({deferredRequestId, url, status, error:data}))
ApplicationError(iv, status) ==
    Settle([iv EXCEPT !.pc = "end", !.outcome = "app"], RejectWith(iv.id, status))

\* !rsp.ok: the response carries a failure status and a parsable body.
FetchAppError(c, i, status) ==
    /\ i \in DOMAIN inv[c]
    /\ inv[c][i].pc = "sending"
    /\ env.flaky
    /\ inv' = [inv EXCEPT ![c][i] = ApplicationError(inv[c][i], status)]
    /\ fetched' = [fetched EXCEPT ![c] = Append(@, Response("app", status, "error"))]
    /\ UNCHANGED <<calls, nextDeferredRequestId, observed, sent, probeFails, env, builderVars>>

\* fetch rejected with an error that carries a status > 0: the .catch()
\* handler returns Promise.reject(...), which nothing is chained to.
FetchErrorWithStatus(c, i) ==
    /\ i \in DOMAIN inv[c]
    /\ inv[c][i].pc = "sending"
    /\ env.flaky
    /\ inv' = [inv EXCEPT ![c][i].pc = "end", ![c][i].outcome = "errstatus"]
    /\ fetched' = [fetched EXCEPT ![c] = Append(@, Response("errstatus", 0, "none"))]
    /\ UNCHANGED <<calls, nextDeferredRequestId, observed, sent, probeFails, env, builderVars>>

\* fetch rejected with no response (error.status || 0 is 0): switch(actionOnFail).
NoResponse(iv) ==
    LET failed == [iv EXCEPT !.outcome = "noresp"]
    IN CASE iv.policy = "defer"  -> [failed EXCEPT !.pc = "deferDelay"]
         [] iv.policy = "fail"   -> Settle([failed EXCEPT !.pc = "end"], RejectWith(iv.id, 0))
         [] iv.policy = "ignore" -> Settle([failed EXCEPT !.pc = "end"], ResolveNull)
         [] OTHER                -> [failed EXCEPT !.pc = "end", !.outcome = "threw"]

FetchNoResponse(c, i) ==
    /\ i \in DOMAIN inv[c]
    /\ inv[c][i].pc = "sending"
    /\ env.flaky
    /\ inv' = [inv EXCEPT ![c][i] =
                  LET after == NoResponse(inv[c][i])
                  IN IF after.pc = "deferDelay"
                     THEN [after EXCEPT !.delay = DeferRefetchDelay(c)]
                     ELSE after]
    /\ observed' = [observed EXCEPT ![c] =
                      IF inv[c][i].policy = "defer" THEN Notify(@, inv[c][i]) ELSE @]
    /\ fetched' = [fetched EXCEPT ![c] = Append(@, Response("noresp", 0, "none"))]
    /\ UNCHANGED <<calls, nextDeferredRequestId, sent, probeFails, env, builderVars>>

\* The delay of the 'defer' case elapsed: robustCall re-invokes itself with
\* four arguments; the promise of the new invocation is returned from the
\* .catch() handler and neither resolve nor reject of p is called.
DeferDelayElapsed(c, i) ==
    /\ i \in DOMAIN inv[c]
    /\ inv[c][i].pc = "deferDelay"
    /\ LET args == DeferRetryArgs(inv[c][i], Merged(c).robust.maxTries)
           j == Len(inv[c]) + 1
           left == [inv[c] EXCEPT ![i].pc = "end", ![i].child = j]
       IN /\ inv' = [inv EXCEPT ![c] =
                        Append(left, NewInvocation(i, "transport", args, nextDeferredRequestId))]
          /\ nextDeferredRequestId' = NextCounter(args.rqid, nextDeferredRequestId)
    /\ UNCHANGED <<calls, observed, sent, fetched, probeFails, env, builderVars>>

Next ==
    \/ \E policy \in Policies, maxTries \in 1..MaxTriesBound : Invoke(policy, maxTries)
    \/ \E c \in CallIds : \E i \in DOMAIN inv[c] : ProbeOk(c, i)
    \/ \E c \in CallIds : \E i \in DOMAIN inv[c] : ProbeFail(c, i)
    \/ \E c \in CallIds : \E i \in DOMAIN inv[c] : ProbeDelayElapsed(c, i)
    \/ \E c \in CallIds : \E i \in DOMAIN inv[c] : InnerSettled(c, i)
    \/ \E c \in CallIds : \E i \in DOMAIN inv[c] : \E data \in Payloads : FetchOk(c, i, data)
    \/ \E c \in CallIds : \E i \in DOMAIN inv[c] :
          \E status \in FailureStatuses : FetchAppError(c, i, status)
    \/ \E c \in CallIds : \E i \in DOMAIN inv[c] : FetchErrorWithStatus(c, i)
    \/ \E c \in CallIds : \E i \in DOMAIN inv[c] : FetchNoResponse(c, i)
    \/ \E c \in CallIds : \E i \in DOMAIN inv[c] : DeferDelayElapsed(c, i)

Spec == Init /\ [][Next]_vars

\* One call that is given overrides.
NextOverride ==
    \/ \E policy \in Policies, maxTries \in 1..MaxTriesBound, t \in RobustOverrides :
          InvokeWith(policy, maxTries, t)
    \/ \E c \in CallIds : \E i \in DOMAIN inv[c] : ProbeOk(c, i)
    \/ \E c \in CallIds : \E i \in DOMAIN inv[c] : ProbeFail(c, i)
    \/ \E c \in CallIds : \E i \in DOMAIN inv[c] : ProbeDelayElapsed(c, i)
    \/ \E c \in CallIds : \E i \in DOMAIN inv[c] : InnerSettled(c, i)
    \/ \E c \in CallIds : \E i \in DOMAIN inv[c] : \E data \in Payloads : FetchOk(c, i, data)
    \/ \E c \in CallIds : \E i \in DOMAIN inv[c] :
          \E status \in FailureStatuses : FetchAppError(c, i, status)
    \/ \E c \in CallIds : \E i \in DOMAIN inv[c] : FetchErrorWithStatus(c, i)
    \/ \E c \in CallIds : \E i \in DOMAIN inv[c] : FetchNoResponse(c, i)
    \/ \E c \in CallIds : \E i \in DOMAIN inv[c] : DeferDelayElapsed(c, i)

SpecOverride == Init /\ [][NextOverride]_vars

\* Two logical calls issued by the application, interleaving freely.
InitPair ==
    /\ InitRobust
    /\ InitBuilder
    /\ env = Environment("absent", TRUE, Cardinality(CallIds), PairMaxTries, PairProbeFails)

SpecPair == InitPair /\ [][Next]_vars

\* The host reports "no network" when the run starts and the server answers
\* every request it receives with a 2xx.
InitOffline ==
    /\ InitRobust
    /\ InitBuilder
    /\ env = Environment("none", FALSE, 1, MaxTriesBound, MaxProbeFails)

\* navigator.connection.type stops being NoConnection.
ComeOnline ==
    /\ env.signal = "none"
    /\ env' = [env EXCEPT !.signal = "up"]
    /\ UNCHANGED <<robustVars, builderVars>>

RobustStepOffline ==
    \/ \E c \in CallIds : \E i \in DOMAIN inv[c] : ProbeOk(c, i)
    \/ \E c \in CallIds : \E i \in DOMAIN inv[c] : ProbeFail(c, i)
    \/ \E c \in CallIds : \E i \in DOMAIN inv[c] : ProbeDelayElapsed(c, i)
    \/ \E c \in CallIds : \E i \in DOMAIN inv[c] : InnerSettled(c, i)
    \/ \E c \in CallIds : \E i \in DOMAIN inv[c] : \E data \in Payloads : FetchOk(c, i, data)

NextOffline ==
    \/ \E policy \in Policies, maxTries \in 1..MaxTriesBound : Invoke(policy, maxTries)
    \/ ComeOnline
    \/ RobustStepOffline

\* The offline period is finite, and every pending probe, delay, request and
\* promise reaction of the event loop eventually runs.
SpecOffline ==
    InitOffline /\ [][NextOffline]_vars /\ WF_vars(ComeOnline) /\ WF_vars(RobustStepOffline)

\* The application builds contexts and executes them; no resilient call runs.
\* No robustCall is under way while objects are built.
InitObjects == InitHeap /\ InitRobust /\ env = Environment("absent", TRUE, 0, 0, 0)

SpecHeap == InitObjects /\ [][NextHeap]_vars

\* No robustCall is under way while contexts are built.
InitContexts == InitBuilder /\ InitRobust /\ env = Environment("absent", TRUE, 0, 0, 0)

SpecBuilder == InitContexts /\ [][NextBuilder]_vars

SpecCall == InitContexts /\ [][NextCall]_vars

TypeOK ==
    /\ Len(calls) <= env.population
    /\ nextDeferredRequestId \in Nat \ {0}
    /\ \A c \in CallIds : \A i \in DOMAIN inv[c] :
         /\ inv[c][i].policy \in Policies
         /\ inv[c][i].promise.state \in {"pending", "resolved", "rejected"}
         /\ inv[c][i].pc \in {"probing", "probeDelay", "awaitInner", "sending", "deferDelay", "end"}

\* ---------------------------------------------------------------- vocabulary
Issued(c) == c \in 1..Len(calls)

\* The invocation the application made; its promise is the caller's promise.
Root(c) == inv[c][1]

\* An invocation that still has a step to take.
CanStep(c, iv) ==
    \/ iv.pc \in {"probing", "probeDelay", "sending", "deferDelay"}
    \/ iv.pc = "awaitInner" /\ inv[c][iv.child].promise.state # "pending"

\* Nothing of logical call c is in flight or scheduled any more.
Ended(c) == Issued(c) /\ \A i \in DOMAIN inv[c] : ~CanStep(c, inv[c][i])

ValidPolicies == {"defer", "fail", "ignore"}

AllNoResponse(c) == \A k \in DOMAIN fetched[c] : fetched[c][k].kind = "noresp"

\* ---------------------------------------------------------------- C1
\* C1: the request id of a logical call is assigned once; every invocation of
\* the call, every observer notification and every settled payload that
\* carries an id carries the id of the first invocation.
RequestIdAssignedOnce ==
    \A c \in CallIds : Issued(c) =>
        /\ \A i \in DOMAIN inv[c] :
             /\ inv[c][i].id = Root(c).id
             /\ inv[c][i].promise.id \in {0, Root(c).id}
        /\ \A k \in DOMAIN observed[c] : observed[c][k] = Root(c).id

\* ---------------------------------------------------------------- C2
\* C2: once the chain of attempts of a logical call has ended with an attempt
\* that succeeded, got an application error or failed under 'fail'/'ignore',
\* the promise returned by the first invocation has been settled exactly once.
ChainEndedByAttempt(c) ==
    /\ Ended(c)
    /\ \A i \in DOMAIN inv[c] :
         inv[c][i].policy \in ValidPolicies /\ inv[c][i].outcome # "errstatus"
    /\ \E i \in DOMAIN inv[c] :
         \/ inv[c][i].outcome \in {"ok", "app"}
         \/ inv[c][i].outcome = "noresp" /\ inv[c][i].policy \in {"fail", "ignore"}

CallerSettledExactlyOnce ==
    \A c \in CallIds : ChainEndedByAttempt(c) => Root(c).settles = 1

\* ---------------------------------------------------------------- C3
\* C3: when the probe of the first invocation succeeds and its real request
\* gets a non-2xx response with a parsable body, the caller's promise is
\* rejected with that status and the call's id, whatever the policy; nothing
\* was retried and the observer was not invoked.
ApplicationErrorIsTerminal ==
    \A c \in CallIds :
        (Issued(c) /\ ~Root(c).probeFailed /\ Root(c).outcome = "app") =>
            /\ Root(c).promise = RejectWith(Root(c).id, fetched[c][1].status)
            /\ fetched[c][1].status \in FailureStatuses
            /\ Root(c).settles = 1
            /\ Len(inv[c]) = 1
            /\ sent[c] = 1
            /\ observed[c] = <<>>
            /\ Ended(c)

ApplicationErrorIsTerminalWitness ==
    \E c \in CallIds : Issued(c) /\ Root(c).policy = "defer" /\ ~Root(c).probeFailed
        /\ Root(c).outcome = "app" /\ Root(c).promise.status = 403

\* ---------------------------------------------------------------- C4
\* C4: under 'defer', when the first k < maxTries real requests got no response
\* and the next one a 2xx, the caller's promise is resolved with the call's id
\* and that response's data, and the observer was invoked exactly k times.
FailedThenSucceeded(c) ==
    /\ Issued(c) /\ Root(c).policy = "defer" /\ probeFails[c] = 0
    /\ Len(fetched[c]) >= 1
    /\ Len(fetched[c]) - 1 < calls[c].maxTries
    /\ fetched[c][Len(fetched[c])].kind = "ok"
    /\ \A k \in 1..(Len(fetched[c]) - 1) : fetched[c][k].kind = "noresp"

DeferRecoversWithData ==
    \A c \in CallIds : FailedThenSucceeded(c) =>
        /\ Root(c).promise = ResolveData(Root(c).id, fetched[c][Len(fetched[c])].data)
        /\ Len(observed[c]) = Len(fetched[c]) - 1

\* ---------------------------------------------------------------- C5
\* C5: under 'defer', with every probe succeeding and every real request
\* getting no response, once the call has stopped retrying the caller's
\* promise is rejected with the call's id and status 0.
DeferGaveUp(c) ==
    /\ Ended(c) /\ Root(c).policy = "defer" /\ probeFails[c] = 0
    /\ AllNoResponse(c)

DeferEscalatesToCaller ==
    \A c \in CallIds : DeferGaveUp(c) => Root(c).promise = RejectWith(Root(c).id, 0)

\* ---------------------------------------------------------------- C6
\* C6: under 'defer', with every probe succeeding and every real request
\* getting no response, the real request was sent exactly maxTries + 1 times
\* when the call gives up.
DeferSendsMaxTriesPlusOne ==
    \A c \in CallIds : DeferGaveUp(c) => sent[c] = calls[c].maxTries + 1

\* ---------------------------------------------------------------- C7
\* C7: a re-invocation after a probe failure has the attempt index, the
\* policy and the request id of the invocation whose probe failed; any other
\* re-invocation follows a response-less real request and has the attempt
\* index plus one; the attempt index of an invocation never changes.
ProbeFailureKeepsAttemptStep ==
    \A c \in CallIds :
        /\ \A i \in DOMAIN inv[c] : inv'[c][i].n = inv[c][i].n
        /\ (Len(inv[c]) > 0 /\ Len(inv'[c]) > Len(inv[c])) =>
             LET nw == inv'[c][Len(inv'[c])]
                 pa == inv[c][nw.parent]
             IN IF pa.pc = "probeDelay"
                THEN nw.n = pa.n /\ nw.policy = pa.policy /\ nw.id = pa.id
                ELSE pa.outcome = "noresp" /\ pa.pc = "deferDelay" /\ nw.n = pa.n + 1

IgnoreResolvesNull ==
    \A c \in CallIds :
        (Ended(c) /\ Root(c).policy = "ignore"
            /\ \E k \in DOMAIN fetched[c] : fetched[c][k].kind = "noresp") =>
            /\ Root(c).promise = ResolveNull
            /\ fetched[c][Len(fetched[c])].kind = "noresp"
            /\ Len(observed[c]) = probeFails[c]

\* ---------------------------------------------------------------- C9
\* C9: under 'fail', as soon as the first real request of the call got no
\* response the caller's promise is rejected with the call's id and status 0,
\* no further request is sent and the observer is not notified of it.
FailRejectsImmediately ==
    \A c \in CallIds :
        (Issued(c) /\ Root(c).policy = "fail"
            /\ Len(fetched[c]) >= 1 /\ fetched[c][1].kind = "noresp") =>
            /\ Root(c).promise = RejectWith(Root(c).id, 0)
            /\ sent[c] = 1
            /\ Len(observed[c]) = probeFails[c]

\* ---------------------------------------------------------------- C10
\* C10: with a policy other than 'defer', 'fail' or 'ignore', the
\* configuration error raised for the first invocation rejects the caller's
\* promise; nothing is retried and the observer is not invoked.
ConfigurationErrorRejects ==
    \A c \in CallIds :
        (Issued(c) /\ Root(c).policy \notin ValidPolicies /\ Root(c).outcome = "threw") =>
            /\ Root(c).promise.state = "rejected"
            /\ Len(observed[c]) = probeFails[c]
            /\ sent[c] = Len(fetched[c])

\* ---------------------------------------------------------------- C11
\* The request ids a logical call has reported: to the observer, or in the
\* payload of a settled promise of one of its invocations.
ReportedIds(c) ==
    {observed[c][k] : k \in DOMAIN observed[c]}
        \cup {inv[c][i].promise.id : i \in {j \in DOMAIN inv[c] : inv[c][j].promise.id # 0}}

\* C11: whatever the interleaving of two logical calls and their retries, no
\* request id is reported by both.
DistinctCallsDistinctIds ==
    \A c1, c2 \in CallIds :
        (c1 # c2 /\ Issued(c1) /\ Issued(c2)) => ReportedIds(c1) \cap ReportedIds(c2) = {}

\* Both calls reported ids, and the first call took an id after the second
\* call had taken its own.
DistinctCallsDistinctIdsWitness ==
    /\ Issued(1) /\ Issued(2)
    /\ \E x \in ReportedIds(1) : x > Root(2).id
    /\ \E y \in ReportedIds(1) : y < Root(2).id
    /\ ReportedIds(2) # {}

\* ---------------------------------------------------------------- C12
Delays == {"probeDelay", "deferDelay"}

\* C12: a step that starts a retry delay (after a probe failure, or after a
\* response-less real request under 'defer') hands the failing invocation's
\* request id to the observer exactly once in that same step; no other step
\* notifies the observer; and an invocation is only ever created out of a
\* delay, that is, after the notification.
ObserverNotifiedBeforeDelayStep ==
    \A c \in CallIds :
        LET entering == {i \in DOMAIN inv[c] :
                            inv[c][i].pc \notin Delays /\ inv'[c][i].pc \in Delays}
        IN /\ entering # {} =>
                \E i \in entering :
                    /\ inv[c][i].pc \in {"probing", "sending"}
                    /\ observed'[c] = Append(observed[c], inv[c][i].id)
           /\ entering = {} => observed'[c] = observed[c]
           /\ (Len(inv[c]) > 0 /\ Len(inv'[c]) > Len(inv[c])) =>
                /\ inv[c][inv'[c][Len(inv'[c])].parent].pc \in Delays
                /\ observed'[c] = observed[c]
                /\ sent'[c] = sent[c]

ObserverNotifiedBeforeDelay == [][ObserverNotifiedBeforeDelayStep]_vars

\* A probe failure and a response-less real request were both notified and
\* both retried.
ObserverNotifiedBeforeDelayWitness ==
    \E c \in CallIds :
        /\ Len(observed[c]) = 2
        /\ \E i, j \in DOMAIN inv[c] : inv[c][i].via = "probe" /\ inv[c][j].via = "transport"

\* ---------------------------------------------------------------- C13
\* C13: a call issued while the host reports "no network" is never rejected,
\* and once the host reports reachable again the caller's promise is
\* eventually resolved with the data the server answered.
OfflineCallResolves ==
    /\ [](\A c \in CallIds : Issued(c) => Root(c).promise.state # "rejected")
    /\ \A c \in CallIds :
         (Issued(c) /\ env.signal = "none") ~>
            (/\ Issued(c) /\ Root(c).promise.state = "resolved"
             /\ Root(c).promise = ResolveData(Root(c).id, fetched[c][Len(fetched[c])].data))

\* The call was issued offline, was delayed and re-probed twice, and resolved.
OfflineCallResolvesWitness ==
    \E c \in CallIds :
        /\ Issued(c) /\ Root(c).probeFailed /\ probeFails[c] = 2
        /\ env.signal = "up"
        /\ Root(c).promise.state = "resolved" /\ Root(c).promise.data \in Payloads

\* ---------------------------------------------------------------- C14
\* C14: once a real request of a logical call got a 2xx, no further real
\* request is sent for that call.
SuccessIsTerminal ==
    \A c \in CallIds : \A k \in DOMAIN fetched[c] :
        fetched[c][k].kind = "ok" => sent[c] = k

\* ---------------------------------------------------------------- C15
\* C15: in a context obtained from a new root by builder operations that
\* include suite, the stored url is the URL text of the context's current
\* protocol, host, port, basePath, app, collection, document, method, params.
StoredUrlIsCurrent ==
    (trail.configured /\ trail.op \notin {"set body", "call", "robustCall"}) =>
        cur.url = UrlString(UrlText(cur))

\* ---------------------------------------------------------------- C16
UrlFields ==
    {"protocol", "host", "port", "basePath", "app", "collection", "document", "method",
     "params"}

ChangesUrlField(ctx, transient) ==
    \E f \in DOMAIN transient \cap UrlFields : transient[f] # ctx[f]

\* C16: when call or robustCall is given transient overrides that change a
\* field the URL is made of, on a context whose stored url is current, the
\* request goes to the URL of the overridden fields.
ExecutesWithCurrentUrl ==
    (/\ request.sent
     /\ cur.url = UrlString(UrlText(cur))
     /\ ChangesUrlField(cur, trail.transient)) =>
        request.url = UrlString(UrlText(Merge(cur, trail.transient)))

\* ---------------------------------------------------------------- C17
Selections == {"app", "collection", "document", "method"}

Segment(name) == IF name = Null THEN <<>> ELSE <<"/", name>>

RECURSIVE FormatSuffix(_)
FormatSuffix(params) ==
    IF params = <<>> THEN <<>>
    ELSE <<Escape(params[1][1]), "=", Escape(params[1][2])>>
            \o (IF Len(params) = 1 THEN <<>> ELSE <<";">> \o FormatSuffix(Tail(params)))

SelectionClearsFiner ==
    /\ trail.op = "app" =>
         /\ cur.app # Null /\ cur.collection = Null /\ cur.document = Null
         /\ cur.method = Null /\ cur.body = <<>>
    /\ trail.op = "collection" =>
         /\ cur.collection # Null /\ cur.document = Null
         /\ cur.method = Null /\ cur.body = <<>>
    /\ trail.op = "document" =>
         cur.document # Null /\ cur.method = Null /\ cur.body = <<>>
    /\ trail.op = "method" => cur.method # Null /\ cur.body = <<>>

\* app(name) on a context with a collection, a document, a method and a body.
SelectionClearsFinerWitness ==
    /\ trail.op = "app"
    /\ trail.before.collection # Null /\ trail.before.document # Null
    /\ trail.before.method # Null /\ trail.before.body # <<>>

\* ---------------------------------------------------------------- C19
Ancestors(i) ==
    LET RECURSIVE Up(_)
        Up(k) == IF k = 0 THEN {} ELSE {k} \cup Up(heap[k].parent)
    IN Up(heap[i].parent)

ReceiverUntouchedStep ==
    \A i \in DOMAIN heap :
        /\ i \in DOMAIN heap'
        /\ heap'[i] = heap[i]

PlainFlt(q) ==
    LET plain == QValue(q, FALSE)
        at == {e \in DOMAIN plain : plain[e][1] = "flt"}
    IN IF at = {} THEN <<>> ELSE plain[CHOOSE e \in at : TRUE][2]

IsFilterCall(c) == c[1] \in FilterNames \cup {"hasFields"}

\* The operator a filter method writes into its entry.
FilterOp(name) ==
    CASE name = "lt" -> "<" [] name = "gt" -> ">" [] name = "lte" -> "<="
      [] name = "gte" -> ">=" [] name = "eq" -> "==" [] name = "match" -> "match"
      [] name = "contains" -> "contains" [] name = "hasFields" -> "has_fields"

IsPrefix(a, b) == Len(a) <= Len(b) /\ \A k \in DOMAIN a : a[k] = b[k]

\* C20: the 'flt' list of the plain render of a QuerySet has one entry per
\* filter call that made it (lt, gt, lte, gte, eq, match, contains,
\* hasFields), in call order, and it starts with the whole 'flt' list of the
\* QuerySet the last mutator, of whatever kind, was called on.
FilterChainInCallOrder ==
    \A i \in DOMAIN heap :
        heap[i].kind = "QuerySet" =>
            LET flt == PlainFlt(heap[i].obj)
                filterCalls == SelectSeq(heap[i].made, IsFilterCall)
            IN /\ Len(flt) = Len(filterCalls)
               /\ \A k \in DOMAIN flt :
                    /\ flt[k][1] = <<"op", FilterOp(filterCalls[k][1])>>
                    /\ flt[k][2][2] = filterCalls[k][2][1]
               /\ heap[i].parent # 0 => IsPrefix(PlainFlt(heap[heap[i].parent].obj), flt)

\* A QuerySet made by two filter calls of different methods.
FilterChainInCallOrderWitness ==
    \E i \in DOMAIN heap :
        /\ heap[i].kind = "QuerySet"
        /\ Len(heap[i].made) = 2
        /\ \A k \in 1..2 : IsFilterCall(heap[i].made[k])
        /\ heap[i].made[1][1] # heap[i].made[2][1]

\* ---------------------------------------------------------------- C21
\* Two plain objects have the same keys and, key by key, the same values.
PlainKeys(plain) == {plain[e][1] : e \in DOMAIN plain}

PlainAt(plain, k) == plain[CHOOSE e \in DOMAIN plain : plain[e][1] = k][2]

SamePlain(a, b) ==
    /\ Len(a) = Len(b)
    /\ PlainKeys(a) = PlainKeys(b)
    /\ \A k \in PlainKeys(a) : PlainAt(a, k) = PlainAt(b, k)

Rebuilt(i) ==
    /\ heap[i].kind = "QuerySet"
    /\ heap[i].made # <<>>
    /\ heap[i].made[Len(heap[i].made)][1] = "new QuerySet"

CallRejectionTellsOutcome ==
    (reply.pc = "done" /\ reply.promise.state = "rejected") =>
        /\ (reply.response.kind = "app" /\ reply.response.data # "not json") =>
              reply.promise.value = <<reply.response.status, reply.response.data>>
        /\ reply.promise.value[1] = 0 => reply.response.kind = "noresp"

\* ---------------------------------------------------------------- C23
WrapperVerb(op) ==
    CASE op = "fetchDocument"   -> "GET"
      [] op = "deleteDocument"  -> "DELETE"
      [] op = "patchDocument"   -> "PATCH"
      [] op = "replaceDocument" -> "PUT"
      [] op = "createDocument"  -> "POST"

Wrappers ==
    {"fetchDocument", "deleteDocument", "patchDocument", "replaceDocument", "createDocument"}

\* C23: the request of a document wrapper has the wrapper's verb, whatever
\* verb the receiver holds, and goes to a URL with the document selected.
WrapperSendsItsVerb ==
    (request.sent /\ trail.op \in Wrappers) =>
        /\ request.verb = WrapperVerb(trail.op)
        /\ request.url.kind = "string"
        /\ \E e \in DOMAIN request.url.text : request.url.text[e] \in DocumentKeys

\* ---------------------------------------------------------------- C24
\* C24: every probe of a logical call goes to the ping of the context with
\* the overrides merged, every real request to the URL of that context, and
\* every retry delay, after a probe failure or a transport failure, is the
\* refetchDelay of that context.
OverridesStayInForce ==
    \A c \in CallIds : \A i \in DOMAIN inv[c] :
        /\ inv[c][i].ping # <<>> => inv[c][i].ping = PingTarget(Merged(c))
        /\ inv[c][i].delay # 0 => inv[c][i].delay = Merged(c).robust.refetchDelay
        /\ inv[c][i].target.kind # "none" =>
              inv[c][i].target = UrlString(UrlText(Merged(c)))

\* ---------------------------------------------------------------- C25
QueryOf(r) == IF r.hasQuery THEN r.query ELSE <<>>

PayloadOf(r) == IF r.hasBody THEN r.payload ELSE <<>>

\* C25: the first request of robustCall(transientContext) is the request
\* call(transientContext) sends from the same context: same URL, same query
\* string fields, same verb, same payload fields (an empty query string or
\* payload counting as none).
RobustCallSendsWhatCallSends ==
    (request.sent /\ trail.op = "robustCall") =>
        LET plain == CallRequest(trail.before, trail.transient)
        IN /\ request.url = plain.url
           /\ request.verb = plain.verb
           /\ QueryOf(request) = QueryOf(plain)
           /\ PayloadOf(request) = PayloadOf(plain)

\* ---------------------------------------------------------------- C26
\* C26: method(name) sets the verb to POST and every operation other than
\* method and requestMethod leaves the verb as it was, so that app,
\* collection and document keep the POST of a method they deselect.
VerbChangedOnlyByMethod ==
    /\ trail.op = "method" => cur.requestMethod = "POST"
    /\ trail.op = "requestMethod" => cur.requestMethod \in Verbs
    /\ trail.op \notin {"new", "method", "requestMethod"} =>
          cur.requestMethod = trail.before.requestMethod

\* collection(name) on a context with a method selected.
VerbChangedOnlyByMethodWitness ==
    /\ trail.op = "collection"
    /\ trail.before.method # Null
    /\ cur.method = Null
    /\ cur.requestMethod = "POST"
====
